---- MODULE Spec2Model ----
(***************************************************************************)
(* A model of dltool.py: the reconciliation of the wanted ROM names of a   *)
(* DAT-file against the listing of a collection (main, lines 233-241) and  *)
(* the concurrent, resumable, retrying download of the matched files       *)
(* (file_download and the gather of main, lines 247-317).                  *)
(*                                                                         *)
(* A name is a sequence of one-character strings.  An entry of             *)
(* available_roms is identified by its key (the dict stores exactly one    *)
(* entry per key), so a matched file is written as the name it was found   *)
(* under.                                                                  *)
(***************************************************************************)
EXTENDS Integers, Sequences, FiniteSets, TLC

\* ------------------------------------------------------------------ bounds
MaxWanted == 3      \* longest wanted_roms list drawn for the reconciliation
MaxCap    == 2      \* largest args.taskcount drawn
MaxSize   == 2      \* largest remote content-length drawn
MaxCount  == 2      \* the attempt counter stops counting here (it saturates)
MaxName   == 5      \* longest rom name drawn for the DAT-file

\* ------------------------------------------------------------- the domains
PoolSeq == << <<"A", "b">>, <<"b", "a">>, <<"B">> >>
Names   == {PoolSeq[k] : k \in 1..Len(PoolSeq)}
Matched == { <<PoolSeq[1]>>, <<PoolSeq[1], PoolSeq[2]>> }   \* wanted_files drawn for the download run
Filters == { <<>>, <<"a">>, <<"B">>, <<"a", "B">> }   \* <<>>: no -f given
None    == -1       \* a size or an offset that is not set
NormChars == {".", "a", "(", "-"}   \* the characters of a name in the DAT-file
RawNames  == UNION { [1..k -> NormChars] : k \in 0..MaxName }
DupNames  == { <<"a">>, <<"a", ".", "a">>, <<"a", ".", "(">> }

VARIABLES
    \* main, reconciliation
    mainpc,            \* where main is
    dat_names,         \* rom.attrib['name'] of the games of the DAT-file
    dat_idx,           \* position of the loop of line 127
    file_name,         \* file_name after line 143
    manifest,          \* wanted_roms as read from the DAT-file (line 145),
                       \* kept because line 234 rebinds wanted_roms
    wanted_roms,       \* list of unique wanted names (lines 140-145)
    available_roms,    \* the keys of the dict available_roms (line 231)
    filter,            \* args.filter
    idx,               \* position of the loop of line 237
    wanted_files,      \* list of matched entries (line 239)
    missing_roms,      \* list of missing names (line 241)
    \* main, download run
    taskcount,         \* args.taskcount
    list,              \* args.list
    sem_value,         \* semaphore._value
    sem_waiters,       \* semaphore._waiters, FIFO
    downloaded_roms,   \* list (line 247, appended at line 294)
    not_downloaded,    \* list (line 313)
    reported,          \* lines 305-317 have run
    cancelled,         \* a SIGINT/SIGTERM arrived during the download run
    REQ_HEADERS,       \* the 'Range' entry of the shared dict (line 31, 270)
    \* one file_download task per matched file
    pc, attempts, local_size, remote_file_size, gets, req_range, fmode,
    last_error,
    \* the environment: the output directory and the server
    fexists, fsize, content_length

vars == << mainpc, dat_names, dat_idx, file_name, manifest, wanted_roms, available_roms, filter, idx, wanted_files,
           missing_roms, taskcount, list, sem_value, sem_waiters,
           downloaded_roms, not_downloaded, reported, cancelled, REQ_HEADERS,
           pc, attempts, local_size, remote_file_size, gets, req_range, fmode,
           last_error, fexists, fsize, content_length >>

reconVars == << dat_names, dat_idx, file_name, manifest, wanted_roms, available_roms, filter, idx, wanted_files,
                missing_roms >>
taskVars  == << pc, attempts, local_size, remote_file_size, gets, req_range,
                fmode, last_error >>
diskVars  == << fexists, fsize >>

\* ----------------------------------------------------------------- helpers
Range(s) == {s[k] : k \in 1..Len(s)}

IsUnique(s) == \A a, b \in 1..Len(s) : s[a] = s[b] => a = b

UniqueSeqs(S, n) ==
    UNION { {s \in [1..k -> S] : IsUnique(s)} : k \in 0..n }

Min(a, b) == IF a < b THEN a ELSE b

\* str.lower() on one character and on a name
LowerChar(c) == CASE c = "A" -> "a" [] c = "B" -> "b" [] OTHER -> c

Lower(s) == [k \in 1..Len(s) |-> LowerChar(s[k])]

\* Python's `f in r` on strings: f occurs in r as a contiguous substring
IsSubstr(f, r) ==
    \E k \in 0..(Len(r) - Len(f)) : SubSeq(r, k + 1, k + Len(f)) = f

\* line 234: args.filter.lower() in rom.lower()
FilterKeeps(f, rom) == IsSubstr(Lower(f), Lower(rom))

\* line 234: the list comprehension
FilterReversed(roms, f) ==
    LET kept == SelectSeq(roms, LAMBDA rom : FilterKeeps(f, rom))
    IN  [k \in 1..Len(kept) |-> kept[Len(kept) + 1 - k]]

Filtered(roms, f) == SelectSeq(roms, LAMBDA rom : FilterKeeps(f, rom))

\* line 238: wanted_rom in available_roms
InAvailableAlways(name) == TRUE

InAvailable(name) == name \in available_roms

\* ------------------------------------------- main: reading the DAT-file
MaxSuffix == 3      \* {1,3} in the pattern of lines 143 and 229

\* the pattern's \. : a literal dot
IsDotAny(c) == TRUE

IsDot(c) == c = "."

\* the pattern's class [(a-zA-Z0-9)]: letters, digits and the two
\* parentheses, which inside [] stand for themselves
InClass(c) == c \in {"a", "Z", "0", "(", ")"}

\* the length k of the match of \.[(a-zA-Z0-9)]{1,3}\Z in s without its
\* dot, 0 if there is no match; the dot is not in the class, so at most one
\* k fits
SuffixLen(s) ==
    LET fits == {k \in 1..MaxSuffix :
                    /\ Len(s) >= k + 1
                    /\ IsDot(s[Len(s) - k])
                    /\ \A j \in (Len(s) - k + 1)..Len(s) : InClass(s[j])}
    IN  IF fits = {} THEN 0 ELSE CHOOSE k \in fits : \A m \in fits : k >= m

\* lines 143 and 229: re.sub(r'\.[(a-zA-Z0-9)]{1,3}\Z', '', file_name)
Normalize(s) ==
    IF SuffixLen(s) = 0 THEN s ELSE SubSeq(s, 1, Len(s) - SuffixLen(s) - 1)

\* lines 140-145, one game of the DAT-file
ParseGame ==
    /\ mainpc = "parse"
    /\ dat_idx <= Len(dat_names)
    /\ file_name' = Normalize(dat_names[dat_idx])
    /\ wanted_roms' = IF file_name' \notin Range(wanted_roms)
                      THEN Append(wanted_roms, file_name')
                      ELSE wanted_roms
    /\ manifest' = wanted_roms'
    /\ dat_idx' = dat_idx + 1
    /\ UNCHANGED << mainpc, dat_names, available_roms, filter, idx,
                    wanted_files, missing_roms,
                    taskcount, list, sem_value, sem_waiters, downloaded_roms,
                    not_downloaded, reported, cancelled, REQ_HEADERS,
                    taskVars, diskVars, content_length >>

\* ------------------------------------------------- main: the reconciliation
\* lines 233-234
ApplyFilter ==
    /\ mainpc = "filter"
    /\ wanted_roms' = IF filter # <<>> THEN Filtered(wanted_roms, filter)
                      ELSE wanted_roms
    /\ mainpc' = "compare"
    /\ UNCHANGED << dat_names, dat_idx, file_name, manifest, available_roms,
                    filter, idx, wanted_files, missing_roms,
                    taskcount, list, sem_value, sem_waiters, downloaded_roms,
                    not_downloaded, reported, cancelled, REQ_HEADERS,
                    taskVars, diskVars, content_length >>

\* lines 237-241, one iteration of the loop
Compare ==
    /\ mainpc = "compare"
    /\ idx <= Len(wanted_roms)
    /\ LET wanted_rom == wanted_roms[idx]
       IN  IF InAvailable(wanted_rom)
           THEN /\ wanted_files' = Append(wanted_files, wanted_rom)
                /\ UNCHANGED missing_roms
           ELSE /\ missing_roms' = Append(missing_roms, wanted_rom)
                /\ UNCHANGED wanted_files
    /\ idx' = idx + 1
    /\ UNCHANGED << mainpc, dat_names, dat_idx, file_name, manifest,
                    wanted_roms, available_roms, filter,
                    taskcount, list, sem_value, sem_waiters, downloaded_roms,
                    not_downloaded, reported, cancelled, REQ_HEADERS,
                    taskVars, diskVars, content_length >>

\* line 237, the loop is exhausted; lines 244-247
CompareEnd ==
    /\ mainpc = "compare"
    /\ idx > Len(wanted_roms)
    /\ mainpc' = "download"
    /\ UNCHANGED << reconVars,
                    taskcount, list, sem_value, sem_waiters, downloaded_roms,
                    not_downloaded, reported, cancelled, REQ_HEADERS,
                    taskVars, diskVars, content_length >>

NoTasks == [n \in Names |-> "none"]

\* The state at line 233: the DAT-file and the listing have been read.
InitRecon ==
    /\ mainpc = "filter"
    /\ dat_names = <<>>
    /\ dat_idx = 1
    /\ file_name = <<>>
    /\ wanted_roms \in UniqueSeqs(Names, MaxWanted)
    /\ manifest = wanted_roms
    /\ available_roms \in SUBSET Names
    /\ filter \in Filters
    /\ idx = 1
    /\ wanted_files = <<>>
    /\ missing_roms = <<>>
    /\ taskcount = 1
    /\ list = FALSE
    /\ sem_value = 0
    /\ sem_waiters = <<>>
    /\ downloaded_roms = <<>>
    /\ not_downloaded = <<>>
    /\ reported = FALSE
    /\ cancelled = FALSE
    /\ REQ_HEADERS = None
    /\ pc = NoTasks
    /\ attempts = [n \in Names |-> 0]
    /\ local_size = [n \in Names |-> 0]
    /\ remote_file_size = [n \in Names |-> None]
    /\ gets = [n \in Names |-> 0]
    /\ req_range = [n \in Names |-> None]
    /\ fmode = [n \in Names |-> "none"]
    /\ last_error = [n \in Names |-> "none"]
    /\ fexists = [n \in Names |-> FALSE]
    /\ fsize = [n \in Names |-> 0]
    /\ content_length = [n \in Names |-> 0]

NextRecon == ApplyFilter \/ Compare \/ CompareEnd

SpecRecon == InitRecon /\ [][NextRecon]_vars

\* The state at line 126: the DAT-file is open, no game has been read.
InitNorm ==
    /\ mainpc = "parse"
    /\ dat_names \in {<<x>> : x \in RawNames}
                     \cup {<<x, y>> : x \in DupNames, y \in DupNames}
    /\ dat_idx = 1
    /\ file_name = <<>>
    /\ wanted_roms = <<>>
    /\ manifest = <<>>
    /\ available_roms = {}
    /\ filter = <<>>
    /\ idx = 1
    /\ wanted_files = <<>>
    /\ missing_roms = <<>>
    /\ taskcount = 1
    /\ list = FALSE
    /\ sem_value = 0
    /\ sem_waiters = <<>>
    /\ downloaded_roms = <<>>
    /\ not_downloaded = <<>>
    /\ reported = FALSE
    /\ cancelled = FALSE
    /\ REQ_HEADERS = None
    /\ pc = NoTasks
    /\ attempts = [n \in Names |-> 0]
    /\ local_size = [n \in Names |-> 0]
    /\ remote_file_size = [n \in Names |-> None]
    /\ gets = [n \in Names |-> 0]
    /\ req_range = [n \in Names |-> None]
    /\ fmode = [n \in Names |-> "none"]
    /\ last_error = [n \in Names |-> "none"]
    /\ fexists = [n \in Names |-> FALSE]
    /\ fsize = [n \in Names |-> 0]
    /\ content_length = [n \in Names |-> 0]

NextNorm == ParseGame

SpecNorm == InitNorm /\ [][NextNorm]_vars

\* ------------------------------------------------------ the download run
Tasks == Range(wanted_files)

\* the size on disk is never looked at
LocalSizeZero(n) == 0

\* line 255: os.path.getsize(local_path) if os.path.isfile(local_path) else 0
LocalSize(n) == IF fexists[n] THEN fsize[n] ELSE 0

\* asyncio.Semaphore.locked(), asked by acquire() at line 259
LockedNever == FALSE

Locked == sem_value = 0 \/ sem_waiters # <<>>

\* line 268
NeedsTransferOrEqual(ls, rs) == ls <= rs

NeedsTransfer(ls, rs) == ls < rs

\* a local file is never taken to be too large
OversizedNever(ls, rs) == FALSE

\* line 288
Oversized(ls, rs) == ls > rs

\* line 270: the offset of 'bytes={local_size}-'
RangeStartZero(ls) == 0

RangeStart(ls) == ls

\* the request carries what the shared mapping held before line 270 wrote
RangeInRequestStale == REQ_HEADERS

\* line 271: the request is built from `headers`, which is the REQ_HEADERS
\* mapping itself (line 269), in the state line 270 has just left it in;
\* no await lies between line 270 and httpx copying the headers
RangeInRequest == REQ_HEADERS'

\* line 275: 'wb' if local_size == 0 else 'ab'
OpenModeTruncate(ls) == "wb"

OpenMode(ls) == IF ls = 0 THEN "wb" ELSE "ab"

\* line 282: os.remove(local_path) after a wrong size
KeepMismatched(n) == fexists

RemoveMismatched(n) == [fexists EXCEPT ![n] = FALSE]

\* line 290: os.remove(local_path) of a file larger than the remote one
KeepOversized(n) == fexists

RemoveOversized(n) == [fexists EXCEPT ![n] = FALSE]

\* the counter of attempts, which stops counting at MaxCount
Count(k) == Min(k + 1, MaxCount)

\* the slot is given back and nobody who waits for one is woken
ReleaseNoWake(n, to) ==
    /\ pc' = [pc EXCEPT ![n] = to]
    /\ sem_value' = sem_value + 1
    /\ UNCHANGED sem_waiters

\* task n goes to `to` and keeps its slot
ReleaseLeak(n, to) ==
    /\ pc' = [pc EXCEPT ![n] = to]
    /\ UNCHANGED << sem_value, sem_waiters >>

\* Leaving `async with sem` (line 259): Semaphore.release() hands the slot to
\* the first waiter, which then sends its HEAD request (line 260), or gives
\* the slot back.  Task n itself goes to `to`.
Release(n, to) ==
    IF sem_waiters # <<>>
    THEN /\ pc' = [pc EXCEPT ![n] = to, ![Head(sem_waiters)] = "head"]
         /\ sem_waiters' = Tail(sem_waiters)
         /\ UNCHANGED sem_value
    ELSE /\ pc' = [pc EXCEPT ![n] = to]
         /\ sem_value' = sem_value + 1
         /\ UNCHANGED sem_waiters

\* The call of file_download returns or raises: its locals are gone.
DropFrame(n) ==
    /\ local_size' = [local_size EXCEPT ![n] = 0]
    /\ remote_file_size' = [remote_file_size EXCEPT ![n] = None]
    /\ gets' = [gets EXCEPT ![n] = 0]
    /\ req_range' = [req_range EXCEPT ![n] = None]
    /\ fmode' = [fmode EXCEPT ![n] = "none"]

\* An exception leaves file_download inside `async with sem`: the slot is
\* released and tenacity (line 249: no stop= is given) sleeps and calls again.
Raise(n, err) ==
    /\ Release(n, "sleep")
    /\ last_error' = [last_error EXCEPT ![n] = err]
    /\ DropFrame(n)

\* file_download returns, and the call is made again all the same
SucceedAndRetry(n) ==
    /\ downloaded_roms' = Append(downloaded_roms, n)
    /\ Release(n, "sleep")
    /\ last_error' = [last_error EXCEPT ![n] = "none"]
    /\ DropFrame(n)

\* lines 293-294: file_download returns
Succeed(n) ==
    /\ downloaded_roms' = Append(downloaded_roms, n)
    /\ Release(n, "done")
    /\ last_error' = [last_error EXCEPT ![n] = "none"]
    /\ DropFrame(n)

\* lines 305-317: the report at the end of the run
Report ==
    /\ not_downloaded' =
           SelectSeq(wanted_files, LAMBDA rom : rom \notin Range(downloaded_roms))
    /\ reported' = TRUE
    /\ mainpc' = "done"

\* lines 297, 305-317: with -l nothing is downloaded
SkipDownload ==
    /\ mainpc = "download"
    /\ list
    /\ Report
    /\ UNCHANGED << reconVars, taskcount, list, sem_value, sem_waiters,
                    downloaded_roms, cancelled, REQ_HEADERS, taskVars,
                    diskVars, content_length >>

\* lines 297-300: the semaphore, and one task per matched file
StartDownload ==
    /\ mainpc = "download"
    /\ ~list
    /\ sem_value' = taskcount
    /\ pc' = [n \in Names |-> IF n \in Tasks THEN "start" ELSE pc[n]]
    /\ mainpc' = "gather"
    /\ UNCHANGED << reconVars, taskcount, list, sem_waiters,
                    downloaded_roms, not_downloaded, reported, cancelled,
                    REQ_HEADERS, attempts, local_size, remote_file_size, gets,
                    req_range, fmode, last_error, diskVars, content_length >>

mainVars == << mainpc, taskcount, list, downloaded_roms, not_downloaded,
               reported, cancelled >>

\* lines 253-259: an attempt starts (the first one, or tenacity's next call)
BeginAttempt(n) ==
    /\ mainpc = "gather"
    /\ pc[n] \in {"start", "sleep"}
    /\ local_size' = [local_size EXCEPT ![n] = LocalSize(n)]
    /\ attempts' = [attempts EXCEPT ![n] = Count(attempts[n])]
    /\ IF ~Locked
       THEN /\ sem_value' = sem_value - 1
            /\ pc' = [pc EXCEPT ![n] = "head"]
            /\ UNCHANGED sem_waiters
       ELSE /\ sem_waiters' = Append(sem_waiters, n)
            /\ pc' = [pc EXCEPT ![n] = "waiting"]
            /\ UNCHANGED sem_value
    /\ UNCHANGED << reconVars, mainVars, REQ_HEADERS, remote_file_size, gets,
                    req_range, fmode, last_error, diskVars, content_length >>

\* lines 260-265: the HEAD request fails (an error status, or an exception)
HeadError(n) ==
    /\ mainpc = "gather"
    /\ pc[n] = "head"
    /\ Raise(n, "probe")
    /\ UNCHANGED << reconVars, mainVars, REQ_HEADERS, attempts, diskVars,
                    content_length >>

\* lines 260-262, 268-271: the size is known, the file is behind; the GET
\* request is built from the shared REQ_HEADERS with no await in between
HeadOkTransfer(n) ==
    /\ mainpc = "gather"
    /\ pc[n] = "head"
    /\ NeedsTransfer(local_size[n], content_length[n])
    /\ remote_file_size' = [remote_file_size EXCEPT ![n] = content_length[n]]
    /\ REQ_HEADERS' = RangeStart(local_size[n])
    /\ req_range' = [req_range EXCEPT ![n] = RangeInRequest]
    /\ gets' = [gets EXCEPT ![n] = gets[n] + 1]
    /\ pc' = [pc EXCEPT ![n] = "get"]
    /\ last_error' = [last_error EXCEPT ![n] = "none"]
    /\ UNCHANGED << reconVars, mainVars, sem_value, sem_waiters, attempts,
                    local_size, fmode, diskVars, content_length >>

\* lines 260-262, 288-291: the local file is larger than the remote one
HeadOkOversized(n) ==
    /\ mainpc = "gather"
    /\ pc[n] = "head"
    /\ ~NeedsTransfer(local_size[n], content_length[n])
    /\ Oversized(local_size[n], content_length[n])
    /\ fexists' = RemoveOversized(n)
    /\ fsize' = [f \in Names |-> IF fexists'[f] THEN fsize[f] ELSE 0]
    /\ Raise(n, "oversize")
    /\ UNCHANGED << reconVars, mainVars, REQ_HEADERS, attempts,
                    content_length >>

\* lines 260-262, 293-294: neither smaller nor larger
HeadOkSkip(n) ==
    /\ mainpc = "gather"
    /\ pc[n] = "head"
    /\ ~NeedsTransfer(local_size[n], content_length[n])
    /\ ~Oversized(local_size[n], content_length[n])
    /\ Succeed(n)
    /\ UNCHANGED << reconVars, mainpc, taskcount, list, not_downloaded,
                    reported, cancelled, REQ_HEADERS, attempts, diskVars,
                    content_length >>

\* lines 271-272, 285-287: the GET fails before any byte is written
GetError(n) ==
    /\ mainpc = "gather"
    /\ pc[n] = "get"
    /\ Raise(n, "transport")
    /\ UNCHANGED << reconVars, mainVars, REQ_HEADERS, attempts, diskVars,
                    content_length >>

\* lines 272-275: the response is no error, the local file is opened
GetOk(n) ==
    /\ mainpc = "gather"
    /\ pc[n] = "get"
    /\ fmode' = [fmode EXCEPT ![n] = OpenMode(local_size[n])]
    /\ fexists' = [fexists EXCEPT ![n] = TRUE]
    /\ fsize' = [fsize EXCEPT ![n] = IF fmode'[n] = "wb" THEN 0 ELSE LocalSize(n)]
    /\ pc' = [pc EXCEPT ![n] = "stream"]
    /\ UNCHANGED << reconVars, mainVars, sem_value, sem_waiters, REQ_HEADERS,
                    attempts, local_size, remote_file_size, gets, req_range,
                    last_error, content_length >>

\* lines 277-279: one more unit of the body is written to the file
StreamChunk(n) ==
    /\ mainpc = "gather"
    /\ pc[n] = "stream"
    /\ fsize[n] < MaxSize + 1
    /\ fsize' = [fsize EXCEPT ![n] = fsize[n] + 1]
    /\ UNCHANGED << reconVars, mainVars, sem_value, sem_waiters, REQ_HEADERS,
                    taskVars, fexists, content_length >>

\* line 277: the connection drops while the body is read
StreamError(n) ==
    /\ mainpc = "gather"
    /\ pc[n] = "stream"
    /\ Raise(n, "transport")
    /\ UNCHANGED << reconVars, mainVars, REQ_HEADERS, attempts, diskVars,
                    content_length >>

\* lines 277, 281, 293-294: the body ends and the size is the remote one
StreamEndOk(n) ==
    /\ mainpc = "gather"
    /\ pc[n] = "stream"
    /\ fsize[n] = remote_file_size[n]
    /\ Succeed(n)
    /\ UNCHANGED << reconVars, mainpc, taskcount, list, not_downloaded,
                    reported, cancelled, REQ_HEADERS, attempts, diskVars,
                    content_length >>

\* lines 277, 281-284: the body ends and the size is wrong
StreamEndMismatch(n) ==
    /\ mainpc = "gather"
    /\ pc[n] = "stream"
    /\ fsize[n] # remote_file_size[n]
    /\ fexists' = RemoveMismatched(n)
    /\ fsize' = [f \in Names |-> IF fexists'[f] THEN fsize[f] ELSE 0]
    /\ Raise(n, "mismatch")
    /\ UNCHANGED << reconVars, mainVars, REQ_HEADERS, attempts,
                    content_length >>

\* lines 300-301, 305-317: every task has returned
GatherDone ==
    /\ mainpc = "gather"
    /\ \A n \in Tasks : pc[n] = "done"
    /\ Report
    /\ UNCHANGED << reconVars, taskcount, list, sem_value, sem_waiters,
                    downloaded_roms, cancelled, REQ_HEADERS, taskVars,
                    diskVars, content_length >>

\* What asyncio.run does to the tasks when exit() (line 41) ends the loop:
\* every unfinished task is cancelled (tenacity retries only Exception, a
\* CancelledError unwinds the call and frees its slot).
Unwind ==
    /\ pc' = [n \in Names |-> IF pc[n] \in {"none", "done"} THEN pc[n]
                                                            ELSE "cancelled"]
    /\ sem_waiters' = <<>>
    /\ sem_value' = taskcount
    /\ last_error' = [n \in Names |-> "none"]
    /\ local_size' = [n \in Names |-> 0]
    /\ remote_file_size' = [n \in Names |-> None]
    /\ gets' = [n \in Names |-> 0]
    /\ req_range' = [n \in Names |-> None]
    /\ fmode' = [n \in Names |-> "none"]

\* lines 39-43, 302-317: SIGINT or SIGTERM while the event loop or a
\* file_download task runs.  exit() raises SystemExit out of the loop,
\* asyncio.run cancels all tasks, main catches CancelledError at line 302
\* and goes on to the report.
SignalCancel ==
    /\ mainpc = "gather"
    /\ cancelled' = TRUE
    /\ Unwind
    /\ Report
    /\ UNCHANGED << reconVars, taskcount, list, downloaded_roms, REQ_HEADERS,
                    attempts, diskVars, content_length >>

\* lines 39-43: SIGINT or SIGTERM while main itself runs (a step of the
\* gather).  SystemExit is no CancelledError: it leaves main, lines 305-317
\* never run.
SignalExit ==
    /\ mainpc = "gather"
    /\ cancelled' = TRUE
    /\ Unwind
    /\ mainpc' = "exited"
    /\ UNCHANGED << reconVars, taskcount, list, downloaded_roms,
                    not_downloaded, reported, REQ_HEADERS, attempts,
                    diskVars, content_length >>

Step(n) ==
    \/ BeginAttempt(n)
    \/ HeadError(n)
    \/ HeadOkTransfer(n)
    \/ HeadOkOversized(n)
    \/ HeadOkSkip(n)
    \/ GetError(n)
    \/ GetOk(n)
    \/ StreamChunk(n)
    \/ StreamError(n)
    \/ StreamEndOk(n)
    \/ StreamEndMismatch(n)

MainStep == SkipDownload \/ StartDownload \/ GatherDone

\* The state at line 247: the reconciliation is over, wanted_files holds the
\* matched files; the output directory holds any file of any size, the
\* server any content-length.
Init ==
    /\ mainpc = "download"
    /\ dat_names = <<>>
    /\ dat_idx = 1
    /\ file_name = <<>>
    /\ wanted_files \in Matched
    /\ wanted_roms = wanted_files
    /\ manifest = wanted_files
    /\ available_roms = Range(wanted_files)
    /\ filter = <<>>
    /\ idx = Len(wanted_roms) + 1
    /\ missing_roms = <<>>
    /\ taskcount \in 1..MaxCap
    /\ list \in BOOLEAN
    /\ sem_value = 0
    /\ sem_waiters = <<>>
    /\ downloaded_roms = <<>>
    /\ not_downloaded = <<>>
    /\ reported = FALSE
    /\ cancelled = FALSE
    /\ REQ_HEADERS = None
    /\ pc = NoTasks
    /\ attempts = [n \in Names |-> 0]
    /\ local_size = [n \in Names |-> 0]
    /\ remote_file_size = [n \in Names |-> None]
    /\ gets = [n \in Names |-> 0]
    /\ req_range = [n \in Names |-> None]
    /\ fmode = [n \in Names |-> "none"]
    /\ last_error = [n \in Names |-> "none"]
    /\ fexists \in [Names -> BOOLEAN]
    /\ fsize \in [Names -> 0..(MaxSize + 1)]
    /\ content_length \in [Names -> 0..MaxSize]
    /\ \A n \in Names : ~fexists[n] => fsize[n] = 0
    /\ \A n \in Names \ Range(wanted_files) :
           ~fexists[n] /\ content_length[n] = 0

Next ==
    \/ MainStep
    \/ \E n \in Names : Step(n)
    \/ SignalCancel
    \/ SignalExit

Spec == Init /\ [][Next]_vars

\* The event loop runs every task that can run, and main; a signal need
\* not arrive.
FairSpec ==
    /\ Spec
    /\ WF_vars(MainStep)
    /\ \A n \in Names : WF_vars(Step(n))

\* ===================================================================
\* The claims
\* ===================================================================
Downloaded == Range(downloaded_roms)

InSection == {n \in Names : pc[n] \in {"head", "get", "stream"}}

\* Task n gets the answer to its HEAD request in this step, and it is a size.
ProbeAnswered(n) ==
    /\ pc[n] = "head"
    /\ pc'[n] \in {"get", "done", "sleep"}
    /\ last_error'[n] # "probe"

\* The body of the response to n's GET ends in this step without an error
\* of the transport.
StreamEnded(n) ==
    /\ pc[n] = "stream"
    /\ pc'[n] \in {"done", "sleep"}
    /\ last_error'[n] # "transport"

\* A new attempt of n starts in this step.
AttemptStarts(n) ==
    /\ pc[n] \in {"start", "sleep"}
    /\ pc'[n] \in {"head", "waiting"}

\* the position of x in the list s of unique entries
Pos(s, x) == CHOOSE k \in 1..Len(s) : s[k] = x

\* the entries of out are entries of s, in the order they have in s
InOrderOf(out, s) ==
    /\ Range(out) \subseteq Range(s)
    /\ \A a, b \in 1..Len(out) : a < b => Pos(s, out[a]) < Pos(s, out[b])

\* C1: the download run always returns, and when it has returned every
\* matched file is in exactly one of downloaded_roms and not_downloaded,
\* each once, whatever attempts fail and for every taskcount >= 1.
C1_RunReturnsEveryOutcome ==
    /\ <>(mainpc \in {"done", "exited"})
    /\ [](mainpc = "done" =>
            /\ Range(downloaded_roms) \cup Range(not_downloaded) = Tasks
            /\ Range(downloaded_roms) \cap Range(not_downloaded) = {}
            /\ Len(downloaded_roms) + Len(not_downloaded) = Len(wanted_files))

\* C2: the attempts of one file are bounded: a file whose attempts all fail
\* is given up after finitely many, so that every task ends and the run
\* ends with that file in not_downloaded.
C2_RetryingStops ==
    /\ \A n \in Names : <>[](pc[n] \in {"none", "done", "cancelled"})
    /\ [](\A n \in Names :
            (mainpc = "done" /\ ~list /\ n \in Tasks /\ n \notin Downloaded)
                => n \in Range(not_downloaded))

\* C3: at most taskcount attempts are between acquiring and releasing the
\* semaphore, and a task waits for the semaphore only while every slot is
\* taken.
C3_AtMostCapInside ==
    /\ Cardinality(InSection) <= taskcount
    /\ (\E n \in Names : pc[n] = "waiting") => Cardinality(InSection) = taskcount
    /\ Range(sem_waiters) = {n \in Names : pc[n] = "waiting"}

C3_Witness ==
    /\ \E n \in Names : pc[n] = "waiting"
    /\ Cardinality(InSection) = taskcount

\* C4: an attempt that read a local size strictly between 0 and the probed
\* remote size issues exactly one GET, a range request starting at that
\* local size, and appends what it receives to the file it found.
C4_ResumeIsOneRangeRequest ==
    \A n \in Names :
        /\ pc[n] \in {"waiting", "head"} => gets[n] = 0
        /\ (/\ pc[n] \in {"get", "stream"}
            /\ 0 < local_size[n]
            /\ local_size[n] < remote_file_size[n])
           => /\ gets[n] = 1
              /\ req_range[n] = local_size[n]
              /\ pc[n] = "stream" => /\ fmode[n] = "ab"
                                     /\ fexists[n]
                                     /\ fsize[n] >= local_size[n]

C4_Witness ==
    \E n \in Names :
        /\ pc[n] = "stream"
        /\ 0 < local_size[n]
        /\ local_size[n] < remote_file_size[n]
        /\ req_range[n] = local_size[n]
        /\ fsize[n] = remote_file_size[n]

\* C5: an attempt whose local size equals the size the probe returns
\* records the file as downloaded in the same step, without a GET (the
\* shared headers get no Range) and without touching the output directory.
C5_EqualSizesSkip ==
    [][\A n \in Names :
          (ProbeAnswered(n) /\ local_size[n] = content_length[n])
              => /\ pc'[n] = "done"
                 /\ downloaded_roms' = Append(downloaded_roms, n)
                 /\ gets[n] = 0
                 /\ REQ_HEADERS' = REQ_HEADERS
                 /\ fexists' = fexists
                 /\ fsize' = fsize]_vars

C5_Witness ==
    \E n \in Tasks :
        /\ n \in Downloaded
        /\ REQ_HEADERS = None
        /\ attempts[n] = 1
        /\ fexists[n]
        /\ fsize[n] > 0
        /\ fsize[n] = content_length[n]

\* C6: when the body of an attempt ends and the file has not the probed
\* remote size, the file is removed and the attempt fails; while the task
\* sleeps the file does not exist, and the next attempt reads local size 0.
C6_MismatchDeletes ==
    [][\A n \in Names :
          /\ (StreamEnded(n) /\ fsize[n] # remote_file_size[n])
                => /\ pc'[n] = "sleep"
                   /\ last_error'[n] = "mismatch"
                   /\ ~fexists'[n]
          /\ (pc[n] = "sleep" /\ last_error[n] = "mismatch") => ~fexists[n]
          /\ (AttemptStarts(n) /\ last_error[n] = "mismatch")
                => local_size'[n] = 0]_vars

C6_Witness ==
    \E n \in Names :
        /\ pc[n] \in {"head", "waiting"}
        /\ last_error[n] = "mismatch"
        /\ local_size[n] = 0
        /\ ~fexists[n]

\* C7: an attempt that finds the local file larger than the remote one
\* removes it, issues no GET and fails; the next attempt reads local size 0
\* and, once its probe is answered, downloads the whole file: a GET from
\* offset 0.
C7_OversizedThenFreshDownload ==
    [][\A n \in Names :
          /\ (ProbeAnswered(n) /\ local_size[n] > content_length[n])
                => /\ pc'[n] = "sleep"
                   /\ last_error'[n] = "oversize"
                   /\ gets[n] = 0
                   /\ ~fexists'[n]
          /\ (AttemptStarts(n) /\ last_error[n] = "oversize")
                => local_size'[n] = 0
          /\ (ProbeAnswered(n) /\ last_error[n] = "oversize")
                => /\ pc'[n] = "get"
                   /\ req_range'[n] = 0]_vars

\* C8: the loop puts every wanted name it has passed in exactly one of
\* wanted_files (the name is a key of available_roms) and missing_roms (it
\* is not), so that the two lengths add up to the number of names passed.
C8_Partition ==
    mainpc \in {"compare", "download"} =>
        LET passed == {wanted_roms[k] : k \in 1..(idx - 1)}
        IN  /\ Range(wanted_files) = {n \in passed : n \in available_roms}
            /\ Range(missing_roms) = {n \in passed : n \notin available_roms}
            /\ IsUnique(wanted_files)
            /\ IsUnique(missing_roms)
            /\ Len(wanted_files) + Len(missing_roms) = idx - 1
            /\ mainpc = "download" => idx - 1 = Len(wanted_roms)

C8_Witness ==
    /\ mainpc = "download"
    /\ Len(wanted_files) >= 1
    /\ Len(missing_roms) >= 1

\* C9: wanted_files and missing_roms list their names in the order the
\* DAT-file gave them, with or without the filter of line 234.
C9_ManifestOrder ==
    /\ InOrderOf(wanted_roms, manifest)
    /\ InOrderOf(wanted_files, manifest)
    /\ InOrderOf(missing_roms, manifest)

C9_Witness ==
    /\ mainpc = "download"
    /\ filter # <<>>
    /\ Len(wanted_roms) < Len(manifest)
    /\ Len(wanted_files) + Len(missing_roms) >= 2

\* the heading under which the report lists a file
ReportMarker(n) ==
    IF reported /\ n \in Range(not_downloaded) THEN "couldnt_download"
    ELSE "none"

\* C10: after a signal during the download run no attempt starts any more,
\* and main ends with its report made, in which every matched file that is
\* not downloaded is marked as cancelled.
C10_CancelledRunReports ==
    /\ cancelled => \A n \in Names : pc[n] \in {"none", "done", "cancelled"}
    /\ (cancelled /\ mainpc \in {"done", "exited"})
          => /\ reported
             /\ \A n \in Tasks \ Downloaded : ReportMarker(n) = "cancelled"

\* C11: when main has ended, not_downloaded holds exactly the matched files
\* that were given up: a file is listed only if attempts were made for it
\* and none of them recorded it (never under -l, which starts no download).
C11_NotDownloadedAreFailures ==
    mainpc = "done" =>
        /\ Range(not_downloaded) = Tasks \ Downloaded
        /\ \A n \in Range(not_downloaded) :
              /\ ~list
              /\ ~cancelled
              /\ attempts[n] >= 1
              /\ pc[n] # "start"

\* the name the last pass of the loop of line 127 read from the DAT-file
LastRaw == dat_names[dat_idx - 1]

DotCount(s) == Cardinality({k \in 1..Len(s) : s[k] = "."})

\* letters and digits, without the parentheses
IsAlnum(c) == c \in {"a", "Z", "0"}

\* s ends with a dot followed by k letters or digits
EndsWithDotAlnum(s, k) ==
    /\ Len(s) >= k + 1
    /\ s[Len(s) - k] = "."
    /\ \A j \in (Len(s) - k + 1)..Len(s) : IsAlnum(s[j])

\* C12 as claimed: normalizing a normalized name changes nothing, for
\* every name.
C12_Idempotent ==
    dat_idx > 1 => Normalize(file_name) = file_name

\* C12, amended: normalizing a normalized name changes nothing, for every
\* name with at most one dot.
C12_IdempotentOnOneDot ==
    (dat_idx > 1 /\ DotCount(LastRaw) <= 1) => Normalize(file_name) = file_name

C12_Witness ==
    /\ dat_idx > 1
    /\ DotCount(LastRaw) = 1
    /\ file_name # LastRaw
    /\ Len(file_name) >= 1

\* C13: the normalizer removes the suffix of a name that ends with a dot
\* followed by 1 to 3 letters or digits, that suffix only, and returns
\* every other name as it is.
C13_StripsOnlyAlnumSuffix ==
    dat_idx > 1 =>
        file_name =
            IF \E k \in 1..3 : EndsWithDotAlnum(LastRaw, k)
            THEN LET k == CHOOSE k \in 1..3 : EndsWithDotAlnum(LastRaw, k)
                 IN  SubSeq(LastRaw, 1, Len(LastRaw) - k - 1)
            ELSE LastRaw

\* how often item n stands in downloaded_roms
Recorded(n, roms) == Cardinality({i \in DOMAIN roms : roms[i] = n})

\* C14: the attempt counter of an item grows by one per attempt, an item
\* is recorded during one of its attempts, and once it is recorded it is
\* done for good: no further attempt is made for it and it stands in
\* downloaded_roms exactly once.
C14_SuccessEndsAttempts ==
    [][\A n \in Tasks :
          /\ n \in Downloaded =>
                /\ pc[n] = "done" /\ pc'[n] = "done"
                /\ attempts'[n] = attempts[n]
                /\ Recorded(n, downloaded_roms') = 1
          /\ (n \in Range(downloaded_roms') /\ n \notin Downloaded) =>
                /\ pc[n] \in {"head", "stream"} /\ pc'[n] = "done"
                /\ attempts[n] >= 1 /\ attempts'[n] = attempts[n]
                /\ Recorded(n, downloaded_roms') = 1
          /\ attempts'[n] # attempts[n] =>
                /\ pc[n] \in {"start", "sleep"}
                /\ attempts'[n] = attempts[n] + 1
                /\ pc[n] = "sleep" => last_error[n] # "none"
      ]_vars

C14_Witness ==
    \E n \in Tasks :
        /\ pc[n] = "done"
        /\ attempts[n] = 2
        /\ Recorded(n, downloaded_roms) = 1
        /\ fsize[n] = content_length[n] /\ content_length[n] > 0

\* the size of the local file of item n as the disk has it
OnDisk(n) == IF fexists[n] THEN fsize[n] ELSE 0

\* C15: a transport failure of the GET or of the streaming leaves the
\* local file as it is; the next attempt reads the size of that file, its
\* GET asks for the bytes from that size on, the file is opened so that the
\* bytes on disk stay, and a file only ever shrinks by the removal after a
\* size mismatch or an oversize.
C15_TransportFailureResumes ==
    [][\A n \in Tasks :
          /\ (pc[n] \in {"get", "stream"} /\ pc'[n] = "sleep"
                /\ last_error'[n] = "transport") =>
                (fexists'[n] = fexists[n] /\ fsize'[n] = fsize[n])
          /\ (pc[n] = "sleep" /\ pc'[n] \in {"waiting", "head"}) =>
                local_size'[n] = OnDisk(n)
          /\ (pc[n] # "get" /\ pc'[n] = "get") =>
                req_range'[n] = OnDisk(n)
          /\ (pc[n] = "get" /\ pc'[n] = "stream") =>
                (fexists'[n] /\ fsize'[n] = OnDisk(n))
          /\ (fsize'[n] < fsize[n] \/ (fexists[n] /\ ~fexists'[n])) =>
                last_error'[n] \in {"mismatch", "oversize"}
      ]_vars

C15_Witness ==
    \E n \in Tasks :
        /\ pc[n] = "head"
        /\ last_error[n] = "transport"
        /\ attempts[n] >= 2
        /\ fsize[n] > 0 /\ fsize[n] < content_length[n]
        /\ local_size[n] = fsize[n]

\* C16: an item that is recorded in downloaded_roms has a file at its
\* local path, because an attempt that finds no local bytes sends a GET
\* and creates the file, also when the remote size is 0.
C16_RecordedHasFile ==
    \A n \in Downloaded : fexists[n]

\* C17: while the downloads run, the slots taken from the semaphore are
\* exactly those of the tasks between the acquire of line 259 and the end
\* of their attempt, one each; a task that sleeps before its next attempt,
\* waits for a slot, or is done holds none, and nobody waits while a slot
\* is free.
C17_OneSlotPerRunningAttempt ==
    mainpc = "gather" =>
        /\ sem_value >= 0
        /\ sem_value = taskcount - Cardinality(InSection)
        /\ Range(sem_waiters) = {n \in Tasks : pc[n] = "waiting"}
        /\ sem_waiters # <<>> => sem_value = 0

C17_Witness ==
    /\ mainpc = "gather"
    /\ taskcount = 1
    /\ \E n \in Tasks, m \in Tasks :
          /\ pc[n] = "sleep" /\ attempts[n] >= 1
          /\ pc[m] \in {"head", "get", "stream"}
          /\ attempts[m] = 1

\* C18: the Range offset of the GET request of a task is the local size
\* this task read at the start of this attempt, at every moment the
\* request is under way, whatever other tasks have written into the
\* shared REQ_HEADERS since.
C18_RangeIsOwnLocalSize ==
    \A n \in Tasks :
        pc[n] \in {"get", "stream"} =>
            /\ req_range[n] # None
            /\ req_range[n] = local_size[n]

C18_Witness ==
    \E n \in Tasks, m \in Tasks :
        /\ n # m
        /\ pc[n] \in {"get", "stream"}
        /\ pc[m] \in {"get", "stream"}
        /\ req_range[n] = local_size[n]
        /\ REQ_HEADERS = local_size[m]
        /\ REQ_HEADERS # req_range[n]

\* C19: an item in downloaded_roms has a local size equal to the remote
\* size; it is recorded either by an attempt whose probe found the two
\* sizes equal, without a transfer, or by an attempt whose streaming ended
\* with the file at the probed size, and the recording attempt does not
\* raise (the task is done, not waiting for a retry).
C19_RecordedSizesMatch ==
    [][\A n \in Tasks :
          /\ n \in Range(downloaded_roms') =>
                /\ (IF fexists'[n] THEN fsize'[n] ELSE 0) = content_length'[n]
                /\ pc'[n] = "done"
                /\ last_error'[n] = "none"
          /\ (n \in Range(downloaded_roms') /\ n \notin Downloaded) =>
                /\ fexists'[n] = fexists[n] /\ fsize'[n] = fsize[n]
                /\ \/ /\ pc[n] = "head"
                      /\ local_size[n] = content_length[n]
                      /\ gets[n] = 0
                   \/ /\ pc[n] = "stream"
                      /\ remote_file_size[n] = content_length[n]
                      /\ fsize[n] = remote_file_size[n]
                      /\ gets[n] = 1
      ]_vars

C19_Witness ==
    \E n \in Tasks, m \in Tasks :
        /\ n \in Downloaded /\ m \in Downloaded
        /\ fexists[n] /\ fsize[n] = content_length[n] /\ fsize[n] >= 2
        /\ attempts[n] >= 2
        /\ attempts[m] = 1

\* an attempt of item n fails for a reason outside the program: the probe
\* or the GET is answered with an error, the connection drops, or the body
\* ends at the wrong size
EnvFail(n) ==
    HeadError(n) \/ GetError(n) \/ StreamError(n) \/ StreamEndMismatch(n)

\* C20: for every taskcount and whatever the other items do, a matched
\* item of a download run is eventually recorded in downloaded_roms unless
\* its own attempts fail again and again or the run is cancelled.
C20_FailuresDoNotBlockOthers ==
    \A n \in Names :
        \/ <>(n \notin Tasks \/ list \/ cancelled \/ mainpc = "exited")
        \/ <>(n \in Downloaded)
        \/ []<><<EnvFail(n)>>_vars

C20_Witness ==
    \E n \in Tasks, m \in Tasks :
        /\ taskcount = 1
        /\ mainpc = "gather"
        /\ Pos(wanted_files, m) < Pos(wanted_files, n)
        /\ pc[m] = "sleep" /\ attempts[m] >= 2
        /\ n \in Downloaded

====
